---- MODULE Spec2Model ----
(***************************************************************************)
(* A model of scripts/train.py: the motion-file ingestion                   *)
(* (load_motion_data), the frame dataset (MotionDataset), the epoch loop    *)
(* of MotionTrainer.train with its two checkpoint sites, the artifact       *)
(* exporter (save_trained_model) and the pipeline (main).                   *)
(*                                                                         *)
(* Numbers.  Losses are naturals; +infinity is Inf, one above the largest   *)
(* validation loss.  NaN losses are not modelled.  Feature values are       *)
(* exact rationals <<numerator, denominator>> in lowest terms, so that      *)
(* normalisation and its inverse are computed, not assumed.                 *)
(*                                                                         *)
(* numpy.  np.array of rows of unequal length raises ValueError (numpy      *)
(* 1.24 and later); len() of, and iteration over, a 0-d array raise         *)
(* TypeError.                                                               *)
(***************************************************************************)
EXTENDS Integers, Sequences, FiniteSets, TLC

VARIABLES
    config,     \* trainer.config: [epochs, checkpoint_interval]
    best_loss,  \* trainer.best_loss
    args,       \* the current train call's [val, save]: val_loader / save_dir given
    tpc,        \* position of the train call
    epoch,      \* the loop variable of train (0-based)
    history,    \* the call's history: [train_loss, val_loss]
    weights,    \* the model's weights, as the number of training passes they went through
    runs,       \* train calls made on this trainer
    writes,     \* files written since the current call began, oldest first
    dir,        \* the input directory: [exists, files], files a map from file name to file
    motions,    \* the list of MotionData records
    normalize,  \* MotionDataset's normalize argument
    dataset,    \* the MotionDataset, or the exception its construction raised
    item,       \* the last __getitem__ call: [idx, value]
    restored,   \* the last result of denormalize
    model,      \* the MotionAutoencoder: its layer widths
    cli,        \* main's parsed arguments: [epochs]
    mpc         \* position of the pipeline

trainerVars == <<config, best_loss, args, tpc, epoch, history, weights, runs>>
dataVars == <<dir, motions, normalize, dataset, item, restored>>
pipeVars == <<dataVars, model, cli, mpc>>
vars == <<trainerVars, writes, pipeVars>>

\* ------------------------------------------------------------------ bounds
MaxEpochs   == 3
MaxInterval == 3
MaxValLoss  == 2
MaxRuns     == 2

Inf       == MaxValLoss + 1
ValLosses == 0..MaxValLoss
\* a training loss: the least or the largest finite loss
TrainLosses == {0, MaxValLoss}

\* ----------------------------------------------------------------- trainer

NoHistory == [train_loss |-> <<>>, val_loss |-> <<>>]

\* line 201: val_loss < self.best_loss
ImprovesOrEqual(val_loss, best) == val_loss <= best
Improves(val_loss, best) == val_loss < best

\* lines 201-202: the best-loss record after an epoch's validation
NewBestAlways(val_loss, best) == val_loss
NewBest(val_loss, best) == IF Improves(val_loss, best) THEN val_loss ELSE best

\* line 214: (epoch + 1) % self.config.checkpoint_interval == 0
PeriodicDueZeroBased(ep, interval) == ep % interval = 0
PeriodicDue(ep, interval) == (ep + 1) % interval = 0

\* _save_checkpoint: the file it writes, named by epoch + 1
Checkpoint(ep, loss, site) ==
    [path    |-> <<"model_epoch", ep + 1>>,
     content |-> [epoch |-> ep, model_state_dict |-> weights, loss |-> loss],
     site    |-> site]

\* MotionTrainer.__init__
MotionTrainer(cfg) == [config |-> cfg, best_loss |-> Inf]

\* train, lines 184-188: a call with a fresh model and an empty save_dir
TrainBegin(val, save) ==
    /\ tpc \in {"idle", "raised"}
    /\ runs' = runs + 1
    /\ args' = [val |-> val, save |-> save]
    /\ history' = NoHistory
    /\ epoch' = 0
    /\ weights' = 0
    /\ writes' = <<>>
    /\ tpc' = "epoch"

\* lines 190-193: one training pass and its loss
TrainPass ==
    /\ tpc = "epoch"
    /\ epoch < config.epochs
    /\ \E train_loss \in TrainLosses :
          history' = [history EXCEPT !.train_loss = Append(@, train_loss)]
    /\ weights' = weights + 1
    /\ tpc' = IF args.val THEN "validate" ELSE "checkpoint"
    /\ UNCHANGED <<config, best_loss, args, epoch, runs, writes>>
    /\ UNCHANGED pipeVars

\* lines 196-204: validation, the best-loss record and the best-model checkpoint;
\* the write may raise, after best_loss was assigned
Validate ==
    /\ tpc = "validate"
    /\ \E val_loss \in ValLosses, written \in BOOLEAN :
          /\ history' = [history EXCEPT !.val_loss = Append(@, val_loss)]
          /\ best_loss' = NewBest(val_loss, best_loss)
          /\ IF Improves(val_loss, best_loss) /\ args.save
                THEN IF written
                        THEN /\ writes' = Append(writes, Checkpoint(epoch, val_loss, "best"))
                             /\ tpc' = "checkpoint"
                        ELSE /\ writes' = writes
                             /\ tpc' = "raised"
                ELSE /\ writes' = writes
                     /\ tpc' = "checkpoint"
    /\ UNCHANGED <<config, args, epoch, weights, runs>>
    /\ UNCHANGED pipeVars

\* lines 214-215: the periodic checkpoint, then the next iteration
PeriodicCheckpoint ==
    /\ tpc = "checkpoint"
    /\ \E written \in BOOLEAN :
          IF PeriodicDue(epoch, config.checkpoint_interval) /\ args.save
             THEN IF written
                     THEN /\ writes' = Append(writes,
                                 Checkpoint(epoch, history.train_loss[epoch + 1], "periodic"))
                          /\ epoch' = epoch + 1
                          /\ tpc' = "epoch"
                     ELSE /\ UNCHANGED <<writes, epoch>>
                          /\ tpc' = "raised"
             ELSE /\ UNCHANGED writes
                  /\ epoch' = epoch + 1
                  /\ tpc' = "epoch"
    /\ UNCHANGED <<config, best_loss, args, history, weights, runs>>
    /\ UNCHANGED pipeVars

\* line 217: return history
TrainReturn ==
    /\ tpc = "epoch"
    /\ epoch = config.epochs
    /\ tpc' = "idle"
    /\ UNCHANGED <<config, best_loss, args, epoch, history, weights, runs, writes>>
    /\ UNCHANGED pipeVars

\* ------------------------------------------------ specification: the trainer

NoDir     == [exists |-> FALSE, files |-> <<>>]
NoDataset == [ok |-> FALSE, error |-> "none"]
NoItem    == [idx |-> -1]
NoRestored == [done |-> FALSE]
NoModel   == [input_dim |-> 0, hidden_dim |-> 0, latent_dim |-> 0]

\* no pipeline: the trainer is used on its own
PipelineIdle ==
    /\ dir = NoDir
    /\ motions = <<>>
    /\ normalize = TRUE
    /\ dataset = NoDataset
    /\ item = NoItem
    /\ restored = NoRestored
    /\ model = NoModel
    /\ cli = [epochs |-> 0]
    /\ mpc = "none"

Configs == [epochs : 0..MaxEpochs, checkpoint_interval : 1..MaxInterval]

InitTrainer ==
    /\ \E cfg \in Configs :
          /\ config = MotionTrainer(cfg).config
          /\ best_loss = MotionTrainer(cfg).best_loss
    /\ args = [val |-> FALSE, save |-> FALSE]
    /\ tpc = "idle"
    /\ epoch = 0
    /\ history = NoHistory
    /\ weights = 0
    /\ runs = 0
    /\ writes = <<>>
    /\ PipelineIdle

\* a caller's train call on the trainer, with or without val_loader and save_dir
CallTrain ==
    /\ runs < MaxRuns
    /\ \E val \in BOOLEAN, save \in BOOLEAN : TrainBegin(val, save)
    /\ UNCHANGED <<config, best_loss>>
    /\ UNCHANGED pipeVars

NextTrainer ==
    \/ CallTrain
    \/ TrainPass
    \/ Validate
    \/ PeriodicCheckpoint
    \/ TrainReturn

SpecTrainer == InitTrainer /\ [][NextTrainer]_vars

\* --------------------------------------------------- claims on the trainer

PeriodicWrites == {i \in DOMAIN writes : writes[i].site = "periodic"}
BestWrites     == {i \in DOMAIN writes : writes[i].site = "best"}
InTrain        == tpc \in {"epoch", "validate", "checkpoint"}

\* C1: with a save location, after every completed epoch e (1-based) of a train
\* call exactly one periodic checkpoint, holding that epoch's training loss, has
\* been written if e is a multiple of the checkpoint interval, and none
\* otherwise; no periodic checkpoint exists for any other epoch.
C1_PeriodicExactlyAtMultiples ==
    (runs > 0 /\ args.save) =>
        /\ \A e \in 1..epoch :
              LET at == {i \in PeriodicWrites : writes[i].path = <<"model_epoch", e>>}
              IN  IF e % config.checkpoint_interval = 0
                     THEN /\ Cardinality(at) = 1
                          /\ \A i \in at :
                                /\ writes[i].content.loss = history.train_loss[e]
                                /\ writes[i].content.epoch = e - 1
                     ELSE at = {}
        /\ \A i \in PeriodicWrites : writes[i].path[2] \in 1..epoch

\* C1's case: a run with validation whose loss rises, interval 2, two epochs done:
\* nothing periodic for epoch 1, one for epoch 2.
C1_Witness ==
    /\ tpc = "idle" /\ args.save /\ args.val
    /\ config.checkpoint_interval = 2 /\ epoch = 2
    /\ history.val_loss[1] < history.val_loss[2]
    /\ history.train_loss[1] # history.train_loss[2]
    /\ \E i \in PeriodicWrites : writes[i].path = <<"model_epoch", 2>>

\* C2: every best-model checkpoint of a call was written at an epoch whose
\* validation loss is strictly below the validation loss of every earlier epoch
\* of that call, on the first and on later calls of the same trainer.
C2_BestOnlyOnStrictImprovement ==
    \A i \in BestWrites :
        LET e == writes[i].path[2]
        IN  /\ e \in 1..Len(history.val_loss)
            /\ writes[i].content.loss = history.val_loss[e]
            /\ \A k \in 1..(e - 1) : history.val_loss[e] < history.val_loss[k]

\* C2's case: the second call on one trainer writes a best checkpoint at its
\* second epoch, after an epoch that did not improve.
C2_Witness ==
    /\ runs = 2 /\ args.val /\ args.save
    /\ Len(history.val_loss) = 2
    /\ \E i \in BestWrites : writes[i].path = <<"model_epoch", 2>>
    /\ ~ \E i \in BestWrites : writes[i].path = <<"model_epoch", 1>>

\* C3: best_loss starts at +infinity and never increases; only the validation
\* step changes it: not a training pass, a periodic checkpoint, the start or the
\* end of a call, nor any step of a call without a validation set.
C3_BestLossNonIncreasing ==
    /\ best_loss = Inf
    /\ [][/\ best_loss' <= best_loss
          /\ (tpc # "validate") => (best_loss' = best_loss)
          /\ (InTrain /\ ~args.val) => (best_loss' = best_loss)]_vars

\* C3's case: on a second call an epoch's validation loss is above the record,
\* which stays.
C3_Witness ==
    /\ runs = 2 /\ args.val /\ tpc = "checkpoint"
    /\ best_loss < Inf
    /\ history.val_loss[Len(history.val_loss)] > best_loss

\* C4: no file written during a train call is written again with other contents
\* during that call.
C4_CheckpointNeverMutated ==
    \A i \in DOMAIN writes : \A j \in DOMAIN writes :
        (i < j /\ writes[i].path = writes[j].path)
            => writes[i].content = writes[j].content

\* ------------------------------------------------------------- arithmetic

RECURSIVE GCD(_, _)
GCD(a, b) == IF b = 0 THEN a ELSE GCD(b, a % b)

Abs(a) == IF a < 0 THEN -a ELSE a

\* the rational n/d (d # 0) in lowest terms, with a positive denominator
Rat(n, d) ==
    LET g == GCD(Abs(n), Abs(d))
    IN  IF d < 0 THEN <<(-n) \div g, (-d) \div g>> ELSE <<n \div g, d \div g>>

RAdd(x, y) == Rat(x[1] * y[2] + y[1] * x[2], x[2] * y[2])
RSub(x, y) == Rat(x[1] * y[2] - y[1] * x[2], x[2] * y[2])
RMul(x, y) ==
    LET g1 == GCD(Abs(x[1]), y[2])
        g2 == GCD(Abs(y[1]), x[2])
    IN  Rat((x[1] \div g1) * (y[1] \div g2), (x[2] \div g2) * (y[2] \div g1))
RDiv(x, y) == RMul(x, Rat(y[2], y[1]))

RECURSIVE ISqrtFrom(_, _)
ISqrtFrom(k, t) == IF (k + 1) * (k + 1) > t THEN k ELSE ISqrtFrom(k + 1, t)

\* a sequence given as a function, as the tuple of its values
AsTuple(f) == <<>> \o f

RECURSIVE SumSeq(_)
SumSeq(q) == IF q = <<>> THEN 0 ELSE Head(q) + SumSeq(Tail(q))

\* ------------------------------------------------------------ motion data

PoseDim    == 7
EpsDen     == 1000000
MaxBones   == 2
MaxFrames  == 2
MaxRecords == 2
MaxStride  == 1
MaxFiles   == 2
StdScale   == 1

\* one bone's pose in a frame: 3 position and 4 orientation components
Pose(seed, b) == <<seed, b, seed + b, 0, 1, seed * b, 2 * seed>>

\* a frame of nb bones: an nb x 7 array
Frame(seed, nb) == [b \in 1..nb |-> Pose(seed, b)]

\* MotionData: frames is a list of frames of num_bones bones each, or (scalar) a
\* 0-d array; bone_names is held by its length
MotionData(name, scalar, nb, seeds, names) ==
    [name |-> name, scalar |-> scalar, num_bones |-> nb,
     frames |-> [k \in DOMAIN seeds |-> Frame(seeds[k], nb)],
     bone_names |-> names]

\* MotionData.num_frames: len(self.frames)
num_frames(motion) == Len(motion.frames)

\* ndarray.flatten of one frame: its rows, one after the other
RECURSIVE flatten(_)
flatten(frame) == IF frame = <<>> THEN <<>> ELSE Head(frame) \o flatten(Tail(frame))

\* --------------------------------------------------------- load_motion_data

FileKinds == {"ok", "invalid_json", "missing_key", "scalar_frames"}

RECURSIVE SortedNames(_)
SortedNames(S) ==
    IF S = {} THEN <<>>
    ELSE LET least == CHOOSE n \in S : \A o \in S : n <= o
         IN  <<least>> \o SortedNames(S \ {least})

\* lines 289-303, one file: json.load raises on invalid JSON and data['name'] or
\* data['frames'] on a missing key, before the append; a file whose frames is a
\* number gives a 0-d array, is appended (299) and then raises in the log line
\* (300: num_frames is len of a 0-d array); the handler (302) logs every one
LoadFile(loaded, name, file) ==
    CASE file.kind = "invalid_json"  -> loaded
      [] file.kind = "missing_key"   -> loaded
      [] file.kind = "scalar_frames" -> Append(loaded, file.record)
      [] file.kind = "ok"            -> Append(loaded, file.record)

RECURSIVE LoadFiles(_, _, _)
LoadFiles(loaded, names, files) ==
    IF names = <<>> THEN loaded
    ELSE LoadFiles(LoadFile(loaded, Head(names), files[Head(names)]), Tail(names), files)

\* lines 280-305
load_motion_data(d) ==
    IF ~d.exists THEN <<>>
    ELSE LoadFiles(<<>>, SortedNames(DOMAIN d.files), d.files)

\* ------------------------------------------------------------ MotionDataset

\* lines 133-139: the flattened frames and their record indices; iterating a
\* 0-d frames array raises TypeError
RECURSIVE FlattenAll(_, _)
FlattenAll(ms, motion_idx) ==
    IF ms = <<>> THEN [ok |-> TRUE, frame_list |-> <<>>, motion_indices |-> <<>>]
    ELSE LET motion == Head(ms)
             rest   == FlattenAll(Tail(ms), motion_idx + 1)
         IN  IF motion.scalar \/ ~rest.ok THEN [ok |-> FALSE, error |-> "TypeError"]
             ELSE [ok |-> TRUE,
                   frame_list |-> [k \in DOMAIN motion.frames |-> flatten(motion.frames[k])]
                                      \o rest.frame_list,
                   motion_indices |-> [k \in DOMAIN motion.frames |-> motion_idx]
                                      \o rest.motion_indices]

\* line 141: np.array(frame_list) is a 2-d array only when all rows have one length
Homogeneous(frame_list) ==
    \A i \in DOMAIN frame_list : Len(frame_list[i]) = Len(frame_list[1])

Column(rows, j) == AsTuple([i \in DOMAIN rows |-> rows[i][j]])

\* line 145: np.mean over axis 0
Mean(col) == Rat(SumSeq(col), Len(col))

\* line 146: np.std over axis 0 (the population deviation, its square root taken
\* to 1/StdScale) plus 1e-6
Std(col) ==
    LET n   == Len(col)
        sq  == SumSeq([i \in DOMAIN col |-> col[i] * col[i]])
        var == Rat(n * sq - SumSeq(col) * SumSeq(col), n * n)
        t   == (var[1] * StdScale * StdScale) \div var[2]
    IN  RAdd(Rat(ISqrtFrom(0, t), StdScale), Rat(1, EpsDen))

\* line 147: (self.frames - self.mean) / self.std, row by row
Normalized(rows, mean, std) ==
    AsTuple([i \in DOMAIN rows |->
        AsTuple([j \in DOMAIN rows[i] |-> RDiv(RSub(Rat(rows[i][j], 1), mean[j]), std[j])])])

Raw(rows) ==
    AsTuple([i \in DOMAIN rows |-> AsTuple([j \in DOMAIN rows[i] |-> Rat(rows[i][j], 1)])])

\* MotionDataset.__init__, lines 128-147; over no frames np.mean gives nan
MotionDataset(ms, norm) ==
    LET flat == FlattenAll(ms, 0)
    IN  IF ~flat.ok THEN [ok |-> FALSE, error |-> flat.error]
        ELSE IF ~Homogeneous(flat.frame_list) THEN [ok |-> FALSE, error |-> "ValueError"]
        ELSE LET rows == flat.frame_list
                 dim  == IF rows = <<>> THEN 0 ELSE Len(rows[1])
                 mean == AsTuple([j \in 1..dim |-> Mean(Column(rows, j))])
                 std  == AsTuple([j \in 1..dim |-> Std(Column(rows, j))])
             IN  [ok |-> TRUE, normalize |-> norm,
                  motion_indices |-> flat.motion_indices,
                  frames |-> IF norm THEN Normalized(rows, mean, std) ELSE Raw(rows),
                  mean |-> IF norm THEN mean ELSE <<>>,
                  std  |-> IF norm THEN std ELSE <<>>]

\* __len__
len(ds) == Len(ds.frames)

\* __getitem__, for 0 <= idx < len
getitemOwnIndex(ds, idx) == <<ds.frames[idx + 1], idx>>
getitem(ds, idx) == <<ds.frames[idx + 1], ds.motion_indices[idx + 1]>>

\* denormalize, lines 158-162: frames * self.std + self.mean
denormalizeNoMean(ds, rows) ==
    IF ds.normalize
       THEN [i \in DOMAIN rows |-> [j \in DOMAIN rows[i] |-> RMul(rows[i][j], ds.std[j])]]
       ELSE rows
denormalize(ds, rows) ==
    IF ds.normalize
       THEN [i \in DOMAIN rows |->
                [j \in DOMAIN rows[i] |-> RAdd(RMul(rows[i][j], ds.std[j]), ds.mean[j])]]
       ELSE rows

\* ---------------------------------------------- specification: ingestion

BadKinds == FileKinds \ {"ok"}

\* what a file holds: <<kind, bones, frames, whether bone_names is given>>
FileParams ==
    {<<k, 0, 0, FALSE>> : k \in BadKinds}
        \cup ({"ok"} \X (1..MaxBones) \X (0..MaxFrames) \X BOOLEAN)

\* the file of that name: the record its JSON document describes (bone_names
\* defaults to the empty list, line 296)
MakeFile(name, p) ==
    [kind |-> p[1],
     record |-> MotionData(name, p[1] = "scalar_frames", p[2],
                           [k \in 1..p[3] |-> k], IF p[4] THEN p[2] ELSE 0)]

DirOf(params) == [exists |-> TRUE, files |-> [n \in DOMAIN params |-> MakeFile(n, params[n])]]

\* the directories of files named by a set of names
DirectoriesOf(names) == {DirOf(f) : f \in [names -> FileParams]}

TrainerIdle ==
    /\ config = [epochs |-> 0, checkpoint_interval |-> 1]
    /\ best_loss = Inf
    /\ args = [val |-> FALSE, save |-> FALSE]
    /\ tpc = "idle"
    /\ epoch = 0
    /\ history = NoHistory
    /\ weights = 0
    /\ runs = 0
    /\ writes = <<>>

InitIngest ==
    /\ TrainerIdle
    /\ \/ dir = NoDir
       \/ \E names \in SUBSET (1..MaxFiles) : dir \in DirectoriesOf(names)
    /\ motions = <<>>
    /\ normalize = TRUE
    /\ dataset = NoDataset
    /\ item = NoItem
    /\ restored = NoRestored
    /\ model = NoModel
    /\ cli = [epochs |-> 0]
    /\ mpc = "start"

\* a call of load_motion_data on the directory
LoadMotionData ==
    /\ mpc = "start"
    /\ motions' = load_motion_data(dir)
    /\ mpc' = "loaded"
    /\ UNCHANGED <<trainerVars, writes, dir, normalize, dataset, item, restored, model, cli>>

NextIngest == LoadMotionData

SpecIngest == InitIngest /\ [][NextIngest]_vars

\* the records of the files that parse, by ascending file name
ParsableRecords(d) ==
    LET names == SortedNames({n \in DOMAIN d.files : d.files[n].kind = "ok"})
    IN  [i \in DOMAIN names |-> d.files[names[i]].record]

\* C5: load_motion_data returns exactly the records of the parsable files, in
\* sorted file-name order, every failing file skipped and the files after it
\* still read; for a directory that does not exist it returns the empty list.
C5_IngestionSkipsFailingFiles ==
    (mpc = "loaded") =>
        /\ dir.exists => motions = ParsableRecords(dir)
        /\ ~dir.exists => motions = <<>>

\* ------------------------------------------- specification: the dataset

Shapes == (1..MaxBones) \X (0..MaxFrames)

\* records of the given <<bones, frames>> shapes; the frames of record m are
\* seeded stride * m, stride * (m + 1), ...
MakeMotions(shapes, stride) ==
    [m \in DOMAIN shapes |->
        MotionData(m, FALSE, shapes[m][1],
                   [k \in 1..shapes[m][2] |-> stride * (m + k - 1)], shapes[m][1])]

InitDataset ==
    /\ TrainerIdle
    /\ dir = NoDir
    /\ \E k \in 0..MaxRecords : \E shapes \in [1..k -> Shapes], stride \in 0..MaxStride :
          motions = MakeMotions(shapes, stride)
    /\ normalize \in BOOLEAN
    /\ dataset = NoDataset
    /\ item = NoItem
    /\ restored = NoRestored
    /\ model = NoModel
    /\ cli = [epochs |-> 0]
    /\ mpc = "records"

\* MotionDataset(motions, normalize)
Construct ==
    /\ mpc = "records"
    /\ dataset' = MotionDataset(motions, normalize)
    /\ mpc' = IF dataset'.ok THEN "constructed" ELSE "raised"
    /\ UNCHANGED <<trainerVars, writes, dir, motions, normalize, item, restored, model, cli>>

\* dataset[idx]
GetItem ==
    /\ mpc = "constructed"
    /\ \E idx \in 0..(len(dataset) - 1) : item' = [idx |-> idx, value |-> getitem(dataset, idx)]
    /\ mpc' = "used"
    /\ UNCHANGED <<trainerVars, writes, dir, motions, normalize, dataset, restored, model, cli>>

\* dataset.denormalize(dataset.frames)
Denormalize ==
    /\ mpc = "constructed"
    /\ restored' = [done |-> TRUE, rows |-> denormalize(dataset, dataset.frames)]
    /\ mpc' = "used"
    /\ UNCHANGED <<trainerVars, writes, dir, motions, normalize, dataset, item, model, cli>>

NextDataset ==
    \/ Construct
    \/ GetItem
    \/ Denormalize

SpecDataset == InitDataset /\ [][NextDataset]_vars

\* frames in the records before record m, and the record and frame that the
\* i-th flattened frame (1-based) comes from
FramesBefore(ms, m) == SumSeq([j \in 1..(m - 1) |-> num_frames(ms[j])])
SourceOf(ms, i) ==
    CHOOSE m \in DOMAIN ms : FramesBefore(ms, m) < i /\ i <= FramesBefore(ms, m + 1)
SourceFrame(ms, i) == ms[SourceOf(ms, i)].frames[i - FramesBefore(ms, SourceOf(ms, i))]
TotalFrames(ms) == FramesBefore(ms, Len(ms) + 1)
OriginalRows(ms) == AsTuple([i \in 1..TotalFrames(ms) |-> flatten(SourceFrame(ms, i))])

BoneCountsDiffer(ms) ==
    \E a \in DOMAIN ms : \E b \in DOMAIN ms : ms[a].num_bones # ms[b].num_bones

\* C7: constructing a dataset from records whose bone counts differ raises, and
\* in every dataset that is constructed each flattened frame has num_bones x 7
\* features, for the bone count of every record that contributes a frame.
C7_DifferingBoneCountsRaise ==
    (mpc # "records") =>
        /\ BoneCountsDiffer(motions) => ~dataset.ok
        /\ dataset.ok =>
              \A i \in DOMAIN dataset.frames : \A m \in DOMAIN motions :
                  num_frames(motions[m]) > 0
                      => Len(dataset.frames[i]) = motions[m].num_bones * PoseDim

\* C8: with normalization enabled, denormalize applied to the normalized corpus
\* gives back every original frame, feature by feature, also for the features
\* that are constant over the corpus.
C8_DenormalizeInvertsNormalize ==
    (restored.done /\ dataset.normalize) => restored.rows = Raw(OriginalRows(motions))

\* C8's case: a normalized corpus of differing frames, one feature constant over
\* it (its deviation is the epsilon alone) and one not, denormalized.
C8_Witness ==
    /\ restored.done /\ dataset.normalize
    /\ len(dataset) >= 2
    /\ \E j \in DOMAIN dataset.std : dataset.std[j] = Rat(1, EpsDen)
    /\ \E j \in DOMAIN dataset.std : dataset.std[j][1] > dataset.std[j][2]
    /\ \E i \in DOMAIN dataset.frames : dataset.frames[i] # dataset.frames[1]

\* C9: a constructed dataset has as many frames as provenance entries as the
\* records have frames in total; entry i is the 0-based list index of the
\* record frame i came from, frames being in record order, then frame order;
\* dataset[idx] is that frame (normalized when normalization is on) with that
\* index.
C9_FramesAndProvenance ==
    (mpc \in {"constructed", "used"}) =>
        /\ len(dataset) = TotalFrames(motions)
        /\ Len(dataset.motion_indices) = TotalFrames(motions)
        /\ \A i \in 1..TotalFrames(motions) :
              dataset.motion_indices[i] = SourceOf(motions, i) - 1
        /\ dataset.frames =
              IF dataset.normalize
                 THEN Normalized(OriginalRows(motions), dataset.mean, dataset.std)
                 ELSE Raw(OriginalRows(motions))
        /\ item.idx >= 0 =>
              item.value = <<dataset.frames[item.idx + 1], SourceOf(motions, item.idx + 1) - 1>>

\* C9's case: a lookup that lands in the second record, after a first record
\* with frames of its own.
C9_Witness ==
    /\ mpc = "used" /\ item.idx >= 1
    /\ Len(motions) >= 2 /\ num_frames(motions[1]) >= 1
    /\ item.value[2] = 1

\* ------------------------------------------------------ save_trained_model

DefaultCheckpointInterval == 10
DefaultHiddenDim == 256
DefaultLatentDim == 128

\* MotionAutoencoder(motion_dim, config): the widths of its layers
MotionAutoencoder(motion_dim, hidden, latent) ==
    [input_dim |-> motion_dim, hidden_dim |-> hidden, latent_dim |-> latent]

\* lines 323-335: the metadata document
Metadata(net, ds, ms) ==
    [motion_names   |-> [m \in DOMAIN ms |-> ms[m].name],
     num_bones      |-> IF ms # <<>> THEN ms[1].bone_names ELSE 0,
     normalize_mean |-> ds.mean,
     normalize_std  |-> ds.std,
     config         |-> [learning_rate |-> Len(ds.mean),
                         hidden_dim    |-> net.hidden_dim,
                         latent_dim    |-> net.latent_dim]]

\* lines 315-349: the three files, in the order they are written
save_trained_model(net, ds, ms) ==
    << [path |-> <<"motion_model.pt", 0>>, site |-> "export",
        content |-> [model_state_dict |-> weights, input_dim |-> net.input_dim]],
       [path |-> <<"motion_metadata.json", 0>>, site |-> "export",
        content |-> Metadata(net, ds, ms)],
       [path |-> <<"normalization.pkl", 0>>, site |-> "export",
        content |-> [mean |-> ds.mean, std |-> ds.std]] >>

\* --------------------------------------------------------------------- main

\* line 461: if not motions
NoMotions(ms) == ms = <<>>

\* lines 459-463
MainLoad ==
    /\ mpc = "start"
    /\ motions' = load_motion_data(dir)
    /\ mpc' = IF NoMotions(motions') THEN "returned" ELSE "loaded"
    /\ UNCHANGED <<trainerVars, writes, dir, normalize, dataset, item, restored, model, cli>>

\* lines 467-471: the dataset, and motion_dim = dataset.frames.shape[1], which
\* raises IndexError on a dataset of no frames
MainPrepare ==
    /\ mpc = "loaded"
    /\ dataset' = MotionDataset(motions, TRUE)
    /\ mpc' = IF dataset'.ok /\ len(dataset') > 0 THEN "prepared" ELSE "raised"
    /\ UNCHANGED <<trainerVars, writes, dir, motions, normalize, item, restored, model, cli>>

\* lines 472-486: the configuration, the model, the trainer, and the call of
\* train with save_dir and without val_loader
MainTrain ==
    /\ mpc = "prepared"
    /\ LET trainer == MotionTrainer([epochs |-> cli.epochs,
                                     checkpoint_interval |-> DefaultCheckpointInterval])
       IN  /\ config' = trainer.config
           /\ best_loss' = trainer.best_loss
    /\ model' = MotionAutoencoder(Len(dataset.frames[1]), DefaultHiddenDim, DefaultLatentDim)
    /\ TrainBegin(FALSE, TRUE)
    /\ mpc' = "training"
    /\ UNCHANGED <<dataVars, cli>>

\* line 486 has returned: train ended without raising
TrainEndedAnyhow == mpc = "training" /\ tpc \in {"idle", "raised"}
TrainReturned == mpc = "training" /\ tpc = "idle"

\* line 490: save_trained_model; each of its three writes may raise
MainExport ==
    /\ TrainReturned
    /\ \E written \in 0..3 :
          /\ writes' = writes \o SubSeq(save_trained_model(model, dataset, motions), 1, written)
          /\ mpc' = IF written = 3 THEN "done" ELSE "raised"
    /\ UNCHANGED <<trainerVars, dataVars, model, cli>>

\* ------------------------------------------- specification: the pipeline

BadFile(kind) == <<kind, 0, 0, FALSE>>
OkFile(nb, n, named) == <<"ok", nb, n, named>>

\* input directories: missing, empty, only failing files, clips of one bone
\* count (with and without bone_names, after a failing file), clips of two bone
\* counts, a clip without frames, a file whose frames is a number
MainDirs ==
    {NoDir,
     DirOf(<<>>),
     DirOf(<<BadFile("invalid_json"), BadFile("missing_key")>>),
     DirOf(<<BadFile("invalid_json"), OkFile(1, 2, TRUE)>>),
     DirOf(<<OkFile(2, 1, FALSE)>>),
     DirOf(<<OkFile(1, 1, TRUE), OkFile(2, 1, TRUE)>>),
     DirOf(<<OkFile(1, 0, TRUE)>>),
     DirOf(<<BadFile("scalar_frames")>>)}

\* --epochs: none, one, and enough to reach the checkpoint interval
MainEpochs == {0, 1, DefaultCheckpointInterval}

InitMain ==
    /\ TrainerIdle
    /\ dir \in MainDirs
    /\ motions = <<>>
    /\ normalize = TRUE
    /\ dataset = NoDataset
    /\ item = NoItem
    /\ restored = NoRestored
    /\ model = NoModel
    /\ cli \in [epochs : MainEpochs]
    /\ mpc = "start"

NextMain ==
    \/ MainLoad
    \/ MainPrepare
    \/ MainTrain
    \/ TrainPass
    \/ PeriodicCheckpoint
    \/ TrainReturn
    \/ MainExport

SpecMain == InitMain /\ [][NextMain]_vars

ExportWrites == {i \in DOMAIN writes : writes[i].site = "export"}
ExportOf(name) == {i \in ExportWrites : writes[i].path[1] = name}

\* C6: each export artifact is written at most once, and only after train has
\* returned with every configured epoch run and every due checkpoint written; a
\* train call that raised on a checkpoint write leaves the pipeline unfinished
\* with no export artifact; when ingestion returned no record nothing is
\* trained and nothing is written.
C6_ExportOnlyAfterCompleteTraining ==
    /\ \A i \in ExportWrites : \A j \in ExportWrites :
          (writes[i].path = writes[j].path) => i = j
    /\ (ExportWrites # {}) =>
          /\ tpc = "idle" /\ runs = 1
          /\ epoch = cli.epochs
          /\ Len(history.train_loss) = cli.epochs
          /\ \A e \in 1..cli.epochs :
                (e % DefaultCheckpointInterval = 0)
                    => \E i \in PeriodicWrites : writes[i].path = <<"model_epoch", e>>
    /\ (tpc = "raised") => (ExportWrites = {} /\ mpc = "training")
    /\ (mpc # "start" /\ motions = <<>>) => (mpc = "returned" /\ runs = 0 /\ writes = <<>>)

\* C6's case: ten epochs, the checkpoint of epoch 10, then the whole bundle.
C6_Witness ==
    /\ mpc = "done" /\ cli.epochs = DefaultCheckpointInterval
    /\ PeriodicWrites # {}
    /\ \A name \in {"motion_model.pt", "motion_metadata.json", "normalization.pkl"} :
          Cardinality(ExportOf(name)) = 1

\* C10: the exported artifacts agree: num_bones x 7 is the feature dimension,
\* which is the length of normalize_mean and of normalize_std, the input
\* dimension in the metadata's config block and the network's input width; the
\* metadata's mean and std are those of the normalization artifact.
C10_ArtifactsConsistent ==
    \A i \in ExportOf("motion_metadata.json") :
        LET meta == writes[i].content
            dim  == Len(dataset.frames[1])
        IN  /\ meta.num_bones * PoseDim = dim
            /\ Len(meta.normalize_mean) = dim
            /\ Len(meta.normalize_std) = dim
            /\ meta.config.learning_rate = dim
            /\ \A k \in ExportOf("motion_model.pt") : writes[k].content.input_dim = dim
            /\ \A k \in ExportOf("normalization.pkl") :
                  /\ writes[k].content.mean = meta.normalize_mean
                  /\ writes[k].content.std = meta.normalize_std

====
